---- MODULE Spec2Model ----
(***************************************************************************)
(* HLE quiz backend: the question store (hle_pipeline/core/                *)
(* database_manager.py) and the MCP tools that serve questions and check   *)
(* answers (mcp_server/mcp_hle_server.py, prototype1/mcp_hle_server.py).   *)
(*                                                                         *)
(* Text is a sequence of one-character strings, so that str.strip,         *)
(* str.lower and the substring test `in` are computed, not assumed.        *)
(* Python's None is the value None below, which is no text.                *)
(***************************************************************************)
EXTENDS Integers, Sequences, FiniteSets, TLC

VARIABLES
    db_exists,  \* os.path.exists(DB_PATH): the SQLite file is there
    store,      \* the questions table: id -> row (id is the PRIMARY KEY)
    response,   \* the last call: its name, its arguments and what it returned
    sessions,   \* the session registry: user id -> that user's quiz session
    calls       \* submit_answer calls in progress: call id -> its position

vars == <<db_exists, store, response, sessions, calls>>

(***************************************************************************)
(* Bounds of the model.                                                    *)
(***************************************************************************)
MaxIds == 2       \* number of question ids
MaxLen == 2       \* longest text enumerated over Alphabet
MaxNum == 2       \* largest num_questions asked of get_random_questions

\* question ids are opaque strings
IdNames == <<"q1", "q2", "q3", "q4">>
Ids == {IdNames[i] : i \in 1..MaxIds}
UnknownQuestionId == "q0"

(***************************************************************************)
(* Text.                                                                   *)
(***************************************************************************)
None == <<"None">>

Whitespace == {" "}

\* the characters of the model, in code point order
Ascii ==
    <<
      " ", "-", "/", "0", "1", "2", "3", "4", "5", "6", "7", "8", "9",
      "A", "B", "C", "D", "E", "F", "G", "H", "I", "J", "K", "L", "M",
      "N", "O", "P", "Q", "R", "S", "T", "U", "V", "W", "X", "Y", "Z",
      "a", "b", "c", "d", "e", "f", "g", "h", "i", "j", "k", "l", "m",
      "n", "o", "p", "q", "r", "s", "t", "u", "v", "w", "x", "y", "z"
    >>

Chars == {Ascii[i] : i \in 1..Len(Ascii)}

Code == [c \in Chars |-> CHOOSE i \in 1..Len(Ascii) : Ascii[i] = c]

\* str.lower on one character
LowerChar(c) ==
    IF Code[c] >= Code["A"] /\ Code[c] <= Code["Z"]
    THEN Ascii[Code[c] + (Code["a"] - Code["A"])]
    ELSE c

lower(s) == [i \in 1..Len(s) |-> LowerChar(s[i])]

RECURSIVE lstrip(_)
lstrip(s) ==
    IF s # <<>> /\ Head(s) \in Whitespace THEN lstrip(Tail(s)) ELSE s

RECURSIVE rstrip(_)
rstrip(s) ==
    IF s # <<>> /\ s[Len(s)] \in Whitespace
    THEN rstrip(SubSeq(s, 1, Len(s) - 1))
    ELSE s

strip(s) == rstrip(lstrip(s))

\* Python's `x in y` on two strings
In(x, y) ==
    \E i \in 0..(Len(y) - Len(x)) : SubSeq(y, i + 1, i + Len(x)) = x

\* Python truthiness of an Optional[str]
Truthy(v) == v # None /\ v # <<>>

\* `v or ""`
OrEmpty(v) == IF Truthy(v) THEN v ELSE <<>>

Alphabet == {"A", "B", "b", " "}

Texts(n) == UNION {[1..k -> Alphabet] : k \in 0..n}

\* the worked examples of the answer check
T42 == <<"4", "2">>
TTheAnswerIs42 ==
    <<"t","h","e"," ","a","n","s","w","e","r"," ","i","s"," ","4","2">>
TParis == <<"P","a","r","i","s">>
Tparis == <<"p","a","r","i","s">>

ExampleTexts == {T42, TTheAnswerIs42, TParis, Tparis}

(***************************************************************************)
(* Responses.                                                              *)
(***************************************************************************)
Idle == [op |-> "idle"]

McpError(msg) == [kind |-> "McpError", message |-> msg]

DbNotFound == McpError("DB not found")
AnswerEmpty == McpError("Answer cannot be empty")
UnknownId == McpError("Unknown question id")
NoQuestion == McpError("No question available (database empty)")

\* get_conn: raises when the database file is missing
GetConnFails == ~db_exists

(***************************************************************************)
(* check_answer and its variants.                                          *)
(***************************************************************************)
Verdict(is_correct, row) ==
    [kind |-> "verdict", correct |-> is_correct,
     ground_truth |-> row.answer, explanation |-> OrEmpty(row.explanation)]

\* the comparison without its last disjunct
IsCorrect_OneWay(answer, gt) == (answer = gt) \/ In(gt, answer)

\* `(answer == gt) or (gt in answer) or (answer in gt)`
IsCorrect(answer, gt) == (answer = gt) \/ In(gt, answer) \/ In(answer, gt)

\* check_answer without the last disjunct, `answer in gt`
CheckAnswerResult_NoAnswerInGt(question_id, answer) ==
    LET a == lower(strip(OrEmpty(answer))) IN
    IF ~Truthy(a) THEN AnswerEmpty
    ELSE IF GetConnFails THEN DbNotFound
    ELSE IF question_id \notin DOMAIN store THEN UnknownId
    ELSE LET row == store[question_id]
             gt == lower(strip(OrEmpty(row.answer)))
             is_correct == (a = gt) \/ In(gt, a)
         IN  Verdict(is_correct, row)

\* check_answer looking the row up before it looks at the answer
CheckAnswerResult_LookupFirst(question_id, answer) ==
    LET a == lower(strip(OrEmpty(answer))) IN
    IF GetConnFails THEN DbNotFound
    ELSE IF question_id \notin DOMAIN store THEN UnknownId
    ELSE IF ~Truthy(a) THEN AnswerEmpty
    ELSE LET row == store[question_id]
             gt == lower(strip(OrEmpty(row.answer)))
             is_correct == (a = gt) \/ In(gt, a) \/ In(a, gt)
         IN  Verdict(is_correct, row)

\* check_answer taking a missing row for an empty ground truth
CheckAnswerResult_NoRowCheck(question_id, answer) ==
    LET a == lower(strip(OrEmpty(answer))) IN
    IF ~Truthy(a) THEN AnswerEmpty
    ELSE IF GetConnFails THEN DbNotFound
    ELSE IF question_id \notin DOMAIN store
         THEN [kind |-> "verdict", correct |-> TRUE,
               ground_truth |-> <<>>, explanation |-> <<>>]
    ELSE LET row == store[question_id]
             gt == lower(strip(OrEmpty(row.answer)))
             is_correct == (a = gt) \/ In(gt, a) \/ In(a, gt)
         IN  Verdict(is_correct, row)

CheckAnswerResult(question_id, answer) ==
    LET a == lower(strip(OrEmpty(answer))) IN
    IF ~Truthy(a) THEN AnswerEmpty
    ELSE IF GetConnFails THEN DbNotFound
    ELSE IF question_id \notin DOMAIN store THEN UnknownId
    ELSE LET row == store[question_id]
             gt == lower(strip(OrEmpty(row.answer)))
             is_correct == IsCorrect(a, gt)
         IN  Verdict(is_correct, row)

\* check_answer_pretty: the same check, the verdict goes to _format_answer_pretty
CheckAnswerPrettyResult(question_id, answer) ==
    LET answer_norm == lower(strip(OrEmpty(answer))) IN
    IF ~Truthy(answer_norm) THEN AnswerEmpty
    ELSE IF GetConnFails THEN DbNotFound
    ELSE IF question_id \notin DOMAIN store THEN UnknownId
    ELSE LET row == store[question_id]
             gt == lower(strip(OrEmpty(row.answer)))
             is_correct ==
                 (answer_norm = gt) \/ In(gt, answer_norm) \/ In(answer_norm, gt)
         IN  Verdict(is_correct, row)

\* check_answer_wa: the same check, the verdict goes to _format_answer_wa
CheckAnswerWaResult(question_id, answer) ==
    LET answer_norm == lower(strip(OrEmpty(answer))) IN
    IF ~Truthy(answer_norm) THEN AnswerEmpty
    ELSE IF GetConnFails THEN DbNotFound
    ELSE IF question_id \notin DOMAIN store THEN UnknownId
    ELSE LET row == store[question_id]
             gt == lower(strip(OrEmpty(row.answer)))
             is_correct ==
                 (answer_norm = gt) \/ In(gt, answer_norm) \/ In(answer_norm, gt)
         IN  Verdict(is_correct, row)

\* prototype1's check_answer
Proto1CheckAnswerResult(question_id, answer) ==
    LET a == lower(strip(OrEmpty(answer))) IN
    IF ~Truthy(a) THEN AnswerEmpty
    ELSE IF GetConnFails THEN DbNotFound
    ELSE IF question_id \notin DOMAIN store THEN UnknownId
    ELSE LET row == store[question_id]
             gt == lower(strip(OrEmpty(row.answer)))
             is_correct == (a = gt) \/ In(gt, a) \/ In(a, gt)
         IN  Verdict(is_correct, row)

Checked(name, question_id, answer, out) ==
    [op |-> name, question_id |-> question_id, answer |-> answer, out |-> out]

\* the arguments a caller may send
AnswerInputs == Texts(MaxLen) \cup ExampleTexts \cup {None}
QuestionIdInputs == Ids \cup {UnknownQuestionId}

check_answer ==
    /\ response = Idle
    /\ \E question_id \in QuestionIdInputs, answer \in AnswerInputs :
         response' = Checked("check_answer", question_id, answer,
                             CheckAnswerResult(question_id, answer))
    /\ UNCHANGED <<db_exists, store, sessions, calls>>

check_answer_pretty ==
    /\ response = Idle
    /\ \E question_id \in QuestionIdInputs, answer \in AnswerInputs :
         response' = Checked("check_answer_pretty", question_id, answer,
                             CheckAnswerPrettyResult(question_id, answer))
    /\ UNCHANGED <<db_exists, store, sessions, calls>>

check_answer_wa ==
    /\ response = Idle
    /\ \E question_id \in QuestionIdInputs, answer \in AnswerInputs :
         response' = Checked("check_answer_wa", question_id, answer,
                             CheckAnswerWaResult(question_id, answer))
    /\ UNCHANGED <<db_exists, store, sessions, calls>>

proto1_check_answer ==
    /\ response = Idle
    /\ \E question_id \in QuestionIdInputs, answer \in AnswerInputs :
         response' = Checked("proto1_check_answer", question_id, answer,
                             Proto1CheckAnswerResult(question_id, answer))
    /\ UNCHANGED <<db_exists, store, sessions, calls>>

\* the tool call returns to the host; the server waits for the next one
Return ==
    /\ response # Idle
    /\ response' = Idle
    /\ UNCHANGED <<db_exists, store, sessions, calls>>

(***************************************************************************)
(* Rows of the questions table. The question text is kept as its LENGTH,   *)
(* the only thing the queries read of it.                                  *)
(***************************************************************************)
TMath == <<"M","a","t","h">>
TIntermediate == <<"I","n","t","e","r","m","e","d","i","a","t","e">>
Ttext == <<"t","e","x","t">>

Row(id, question, answer, subject, difficulty, explanation, question_type) ==
    [id |-> id, question |-> question, answer |-> answer, subject |-> subject,
     raw_subject |-> <<>>, difficulty |-> difficulty,
     explanation |-> explanation, question_type |-> question_type,
     image |-> <<>>]

\* the tables of at most n rows drawn from `rows`, each under its own id
Tables(rows, n) ==
    UNION {{[i \in D |-> [f[i] EXCEPT !.id = i]] : f \in [D -> rows]}
           : D \in {E \in SUBSET Ids : Cardinality(E) <= n}}

(***************************************************************************)
(* Answer checking: a table of at most one row with any stored answer.     *)
(***************************************************************************)
StoredAnswers == Texts(MaxLen) \cup ExampleTexts

VerdictRows ==
    {Row("q1", 120, ans, TMath, TIntermediate, expl, Ttext) :
        ans \in StoredAnswers, expl \in {None, <<"b">>}}

InitVerdict ==
    /\ db_exists \in BOOLEAN
    /\ store \in Tables(VerdictRows, 1)
    /\ ~db_exists => store = <<>>
    /\ response = Idle
    /\ sessions = <<>>
    /\ calls = <<>>

NextVerdict ==
    \/ check_answer
    \/ check_answer_pretty
    \/ check_answer_wa
    \/ proto1_check_answer
    \/ Return

SpecVerdict == InitVerdict /\ [][NextVerdict]_vars

(***************************************************************************)
(* DatabaseManager: the queries of database_manager.py.                    *)
(***************************************************************************)
TAll == <<"A", "l", "l">>
TBiology == <<"B", "i", "o", "l", "o", "g", "y">>
TAdvanced == <<"A", "d", "v", "a", "n", "c", "e", "d">>
Timage == <<"i", "m", "a", "g", "e">>
Teasy == <<"e", "a", "s", "y">>
Tmedium == <<"m", "e", "d", "i", "u", "m">>
Thard == <<"h", "a", "r", "d">>

Range(f) == {f[x] : x \in DOMAIN f}

Min(a, b) == IF a <= b THEN a ELSE b

\* `if subject and subject != "All": query += " AND subject = ?"`
FilterClause_AllIsALabel(value, column) ==
    Truthy(value) => column = value

FilterClause_UnsetIsALabel(value, column) ==
    value # TAll => column = value

FilterClause(value, column) ==
    (Truthy(value) /\ value # TAll) => column = value

\* `if exclude_ids: ... AND id NOT IN (?, ?, ...)`; an empty list is falsy
ExcludeClause_Dropped(exclude_ids, id) == TRUE

ExcludeClause_MissesLast(exclude_ids, id) ==
    (exclude_ids # None /\ exclude_ids # <<>>) =>
        id \notin {exclude_ids[k] : k \in 1..(Len(exclude_ids) - 1)}

ExcludeClause(exclude_ids, id) ==
    (exclude_ids # None /\ exclude_ids # <<>>) => id \notin Range(exclude_ids)

\* the length thresholds of the difficulty proxy
EasyBelow == 120
MediumFrom == 120
MediumTo == 240
HardAbove == 240

BinClause_Strict(difficulty_bin, question) ==
    IF difficulty_bin = Teasy THEN question < EasyBelow
    ELSE IF difficulty_bin = Tmedium
         THEN question > MediumFrom /\ question < MediumTo
    ELSE IF difficulty_bin = Thard THEN question > HardAbove
    ELSE TRUE

\* LENGTH(question) < 120 / BETWEEN 120 AND 240 / > 240
BinClause(difficulty_bin, question) ==
    IF difficulty_bin = Teasy THEN question < EasyBelow
    ELSE IF difficulty_bin = Tmedium
         THEN question >= MediumFrom /\ question <= MediumTo
    ELSE IF difficulty_bin = Thard THEN question > HardAbove
    ELSE TRUE

\* ORDER BY RANDOM() LIMIT n: every ordering of every n of the rows;
\* a negative LIMIT is no limit
RandomLimit(rows, n) ==
    LET k == IF n < 0 THEN Cardinality(rows) ELSE Min(n, Cardinality(rows))
    IN  {q \in [1..k -> rows] : \A i, j \in 1..k : q[i] = q[j] => i = j}

\* get_random_questions drawing from the whole table when nothing matches
GetRandomQuestionsResults_FallsBack(num_questions, subject, difficulty, question_type) ==
    LET rows == {r \in Range(store) :
                    /\ FilterClause(subject, r.subject)
                    /\ FilterClause(difficulty, r.difficulty)
                    /\ FilterClause(question_type, r.question_type)}
        from == IF rows = {} THEN Range(store) ELSE rows
    IN  {[kind |-> "rows", rows |-> q] : q \in RandomLimit(from, num_questions)}

\* get_random_questions: the lists it may return
GetRandomQuestionsResults(num_questions, subject, difficulty, question_type) ==
    LET rows == {r \in Range(store) :
                    /\ FilterClause(subject, r.subject)
                    /\ FilterClause(difficulty, r.difficulty)
                    /\ FilterClause(question_type, r.question_type)}
    IN  {[kind |-> "rows", rows |-> q] : q \in RandomLimit(rows, num_questions)}

\* the rows get_adaptive_question's WHERE clause keeps
AdaptiveRows(exclude_ids, subject, difficulty, question_type, difficulty_bin) ==
    {r \in Range(store) :
        /\ FilterClause(subject, r.subject)
        /\ FilterClause(difficulty, r.difficulty)
        /\ FilterClause(question_type, r.question_type)
        /\ ExcludeClause(exclude_ids, r.id)
        /\ BinClause(difficulty_bin, r.question)}

\* get_adaptive_question: `dict(row) if row else None`
GetAdaptiveQuestionResults(exclude_ids, subject, difficulty, question_type, difficulty_bin) ==
    LET rows == AdaptiveRows(exclude_ids, subject, difficulty, question_type,
                             difficulty_bin)
    IN  IF rows = {} THEN {[kind |-> "none"]}
        ELSE {[kind |-> "row", row |-> q[1]] : q \in RandomLimit(rows, 1)}

\* the arguments a caller may send
LabelInputs(labels) == {None, TAll} \cup labels
BinInputs == {None, Teasy, Tmedium, Thard}
NumInputs == (-1)..MaxNum

RECURSIVE ListOf(_)
ListOf(S) ==
    IF S = {} THEN <<>>
    ELSE LET x == CHOOSE y \in S : TRUE IN <<x>> \o ListOf(S \ {x})

ExcludeInputs == {None} \cup {ListOf(S) : S \in SUBSET Ids}

\* DatabaseManager.__init__: creates the file and the tables if missing
DatabaseManager_init ==
    /\ response = Idle
    /\ db_exists' = TRUE
    /\ response' = [op |-> "DatabaseManager"]
    /\ UNCHANGED <<store, sessions, calls>>

get_random_questions ==
    /\ response = Idle
    /\ db_exists
    /\ \E num_questions \in NumInputs,
          subject \in LabelInputs({TMath, TBiology}),
          difficulty \in LabelInputs({TIntermediate, TAdvanced}),
          question_type \in LabelInputs({Ttext, Timage}) :
         \E out \in GetRandomQuestionsResults(num_questions, subject,
                                             difficulty, question_type) :
            response' = [op |-> "get_random_questions",
                         num_questions |-> num_questions,
                         subject |-> subject, difficulty |-> difficulty,
                         question_type |-> question_type, out |-> out]
    /\ UNCHANGED <<db_exists, store, sessions, calls>>

\* get_adaptive_question deleting the row it serves
get_adaptive_question_Consumes ==
    /\ response = Idle
    /\ db_exists
    /\ \E exclude_ids \in ExcludeInputs, difficulty_bin \in BinInputs :
         \E out \in GetAdaptiveQuestionResults(exclude_ids, None, None, None,
                                              difficulty_bin) :
            /\ response' = [op |-> "get_adaptive_question",
                            exclude_ids |-> exclude_ids,
                            subject |-> None, difficulty |-> None,
                            question_type |-> None,
                            difficulty_bin |-> difficulty_bin, out |-> out]
            /\ store' = IF out.kind = "row"
                        THEN [i \in DOMAIN store \ {out.row.id} |-> store[i]]
                        ELSE store
    /\ UNCHANGED <<db_exists, sessions, calls>>

get_adaptive_question ==
    /\ response = Idle
    /\ db_exists
    /\ \E exclude_ids \in ExcludeInputs,
          subject \in LabelInputs({TMath, TBiology}),
          difficulty \in LabelInputs({TIntermediate, TAdvanced}),
          question_type \in LabelInputs({Ttext, Timage}),
          difficulty_bin \in BinInputs :
         \E out \in GetAdaptiveQuestionResults(exclude_ids, subject, difficulty,
                                              question_type, difficulty_bin) :
            response' = [op |-> "get_adaptive_question",
                         exclude_ids |-> exclude_ids,
                         subject |-> subject, difficulty |-> difficulty,
                         question_type |-> question_type,
                         difficulty_bin |-> difficulty_bin, out |-> out]
    /\ UNCHANGED <<db_exists, store, sessions, calls>>

(***************************************************************************)
(* The MCP server: canonical filter values and play_exam.                  *)
(***************************************************************************)
Tmaths == <<"m", "a", "t", "h", "s">>
Tmath == <<"m", "a", "t", "h">>
Tmathematics == <<"m", "a", "t", "h", "e", "m", "a", "t", "i", "c", "s">>
Tbio == <<"b", "i", "o">>
Tbiology == <<"b", "i", "o", "l", "o", "g", "y">>
Tchem == <<"c", "h", "e", "m">>
Tchemistry == <<"c", "h", "e", "m", "i", "s", "t", "r", "y">>
Tcs == <<"c", "s">>
Tai == <<"a", "i">>
Tcomp_sci == <<"c", "o", "m", "p", " ", "s", "c", "i">>
Tcs_ai == <<"c", "s", "/", "a", "i">>
Tmcq == <<"m", "c", "q">>
Tmcqs == <<"m", "c", "q", "s">>
Tmultiple_choice == <<"m", "u", "l", "t", "i", "p", "l", "e", " ", "c", "h", "o", "i", "c", "e">>
Tmultiple_dash_choice == <<"m", "u", "l", "t", "i", "p", "l", "e", "-", "c", "h", "o", "i", "c", "e">>
Tchoice == <<"c", "h", "o", "i", "c", "e">>

\* BINARY collation of ORDER BY: code point order, a prefix first
RECURSIVE TextLess(_, _)
TextLess(a, b) ==
    IF a = <<>> THEN b # <<>>
    ELSE IF b = <<>> THEN FALSE
    ELSE IF Head(a) = Head(b) THEN TextLess(Tail(a), Tail(b))
    ELSE Code[Head(a)] < Code[Head(b)]

\* SELECT DISTINCT col ... ORDER BY col, as a list
RECURSIVE Sorted(_)
Sorted(S) ==
    IF S = {} THEN <<>>
    ELSE LET least == CHOOSE x \in S : \A y \in S \ {x} : TextLess(x, y)
         IN  <<least>> \o Sorted(S \ {least})

get_all_subjects == Sorted({r.subject : r \in Range(store)})

get_all_question_types == Sorted({r.question_type : r \in Range(store)})

synonyms(s) ==
    CASE s = Tmaths -> Tmath
      [] s = Tmathematics -> Tmath
      [] s = Tbio -> Tbiology
      [] s = Tchem -> Tchemistry
      [] s = Tcs -> Tcs_ai
      [] s = Tai -> Tcs_ai
      [] s = Tcomp_sci -> Tcs_ai
      [] OTHER -> s

\* the matching loop testing `s in subj_l` only
FirstMatch_OneWay(s, available) ==
    LET hits == {i \in 1..Len(available) :
                    LET l == lower(OrEmpty(available[i]))
                    IN  s = l \/ In(s, l)}
    IN  IF hits = {} THEN None
        ELSE available[CHOOSE i \in hits : \A j \in hits : i <= j]

\* the matching loop giving way to an entry that equals s
FirstMatch_PrefersExact(s, available) ==
    LET hits == {i \in 1..Len(available) :
                    LET l == lower(OrEmpty(available[i]))
                    IN  s = l \/ In(s, l) \/ In(l, s)}
        exact == {i \in hits : lower(OrEmpty(available[i])) = s}
        from == IF exact # {} THEN exact ELSE hits
    IN  IF hits = {} THEN None
        ELSE available[CHOOSE i \in from : \A j \in from : i <= j]

\* the first entry of `available` that matches s either way, else None
FirstMatch(s, available) ==
    LET hits == {i \in 1..Len(available) :
                    LET l == lower(OrEmpty(available[i]))
                    IN  s = l \/ In(s, l) \/ In(l, s)}
    IN  IF hits = {} THEN None
        ELSE available[CHOOSE i \in hits : \A j \in hits : i <= j]

\* normalize_subject handing the user's text on when nothing matches
normalize_subject_KeepsInput(user_subject, available) ==
    IF ~Truthy(user_subject) THEN None
    ELSE LET s == lower(strip(user_subject))
         IN  IF ~Truthy(s) THEN None
             ELSE IF FirstMatch(synonyms(s), available) = None THEN s
             ELSE FirstMatch(synonyms(s), available)

normalize_subject(user_subject, available) ==
    IF ~Truthy(user_subject) THEN None
    ELSE LET s == lower(strip(user_subject))
         IN  IF ~Truthy(s) THEN None
             ELSE FirstMatch(synonyms(s), available)

\* normalize_qtype without the phrases mapped to "text"
normalize_qtype_NoPhrases(user_qtype, available) ==
    IF ~Truthy(user_qtype) THEN None
    ELSE LET q == lower(strip(user_qtype))
         IN  IF ~Truthy(q) THEN None
             ELSE FirstMatch(q, available)

normalize_qtype(user_qtype, available) ==
    IF ~Truthy(user_qtype) THEN None
    ELSE LET q == lower(strip(user_qtype))
         IN  IF ~Truthy(q) THEN None
             ELSE IF q \in {Tmcq, Tmcqs, Tmultiple_choice,
                            Tmultiple_dash_choice, Tchoice}
                  THEN FirstMatch(Ttext, available)
                  ELSE FirstMatch(q, available)

\* the Question model: the five columns play_exam selects
Question(r) ==
    [id |-> r.id, question |-> r.question, subject |-> r.subject,
     difficulty |-> r.difficulty, question_type |-> r.question_type]

Asked(out, subj_canon, qtype_canon, fallback) ==
    [out |-> out, subj_canon |-> subj_canon, qtype_canon |-> qtype_canon,
     fallback |-> fallback]

Served(r) == [kind |-> "question", question |-> Question(r)]

\* play_exam without the unfiltered second query
PlayExamResults_NoFallback(subject, question_type) ==
    IF GetConnFails THEN {Asked(DbNotFound, None, None, FALSE)}
    ELSE
    LET subj_canon == normalize_subject(subject, get_all_subjects)
        qtype_canon == normalize_qtype(question_type, get_all_question_types)
        rows == {r \in Range(store) :
                    /\ Truthy(subj_canon) => r.subject = subj_canon
                    /\ Truthy(qtype_canon) => r.question_type = qtype_canon}
    IN  IF rows # {}
        THEN {Asked(Served(r), subj_canon, qtype_canon, FALSE) : r \in rows}
        ELSE {Asked(NoQuestion, subj_canon, qtype_canon, FALSE)}

\* play_exam answering an empty table with a default Question
PlayExamResults_DefaultOnEmpty(subject, question_type) ==
    IF GetConnFails THEN {Asked(DbNotFound, None, None, FALSE)}
    ELSE
    LET subj_canon == normalize_subject(subject, get_all_subjects)
        qtype_canon == normalize_qtype(question_type, get_all_question_types)
        rows == {r \in Range(store) :
                    /\ Truthy(subj_canon) => r.subject = subj_canon
                    /\ Truthy(qtype_canon) => r.question_type = qtype_canon}
    IN  IF rows # {}
        THEN {Asked(Served(r), subj_canon, qtype_canon, FALSE) : r \in rows}
        ELSE IF Range(store) # {}
        THEN {Asked(Served(r), subj_canon, qtype_canon, TRUE) :
                  r \in Range(store)}
        ELSE {Asked(Served(Row("", 0, <<>>, <<>>, None, None, None)),
                    subj_canon, qtype_canon, TRUE)}

\* play_exam without the question_type condition in its WHERE clause
PlayExamResults_SubjectOnly(subject, question_type) ==
    IF GetConnFails THEN {Asked(DbNotFound, None, None, FALSE)}
    ELSE
    LET subj_canon == normalize_subject(subject, get_all_subjects)
        qtype_canon == normalize_qtype(question_type, get_all_question_types)
        rows == {r \in Range(store) :
                    Truthy(subj_canon) => r.subject = subj_canon}
    IN  IF rows # {}
        THEN {Asked(Served(r), subj_canon, qtype_canon, FALSE) : r \in rows}
        ELSE IF Range(store) # {}
        THEN {Asked(Served(r), subj_canon, qtype_canon, TRUE) :
                  r \in Range(store)}
        ELSE {Asked(NoQuestion, subj_canon, qtype_canon, TRUE)}

\* play_exam: what it may return, with the canonical filters it used and
\* whether the unfiltered second query was run
PlayExamResults(subject, question_type) ==
    IF GetConnFails THEN {Asked(DbNotFound, None, None, FALSE)}
    ELSE
    LET subj_canon == normalize_subject(subject, get_all_subjects)
        qtype_canon == normalize_qtype(question_type, get_all_question_types)
        rows == {r \in Range(store) :
                    /\ Truthy(subj_canon) => r.subject = subj_canon
                    /\ Truthy(qtype_canon) => r.question_type = qtype_canon}
    IN  IF rows # {}
        THEN {Asked(Served(r), subj_canon, qtype_canon, FALSE) : r \in rows}
        ELSE IF Range(store) # {}
        THEN {Asked(Served(r), subj_canon, qtype_canon, TRUE) :
                  r \in Range(store)}
        ELSE {Asked(NoQuestion, subj_canon, qtype_canon, TRUE)}

\* play_exam_pretty: the same queries, the Question goes to _format_question_pretty
PlayExamPrettyResults(subject, question_type) ==
    IF GetConnFails THEN {Asked(DbNotFound, None, None, FALSE)}
    ELSE
    LET subj_canon == normalize_subject(subject, get_all_subjects)
        qtype_canon == normalize_qtype(question_type, get_all_question_types)
        rows == {r \in Range(store) :
                    /\ Truthy(subj_canon) => r.subject = subj_canon
                    /\ Truthy(qtype_canon) => r.question_type = qtype_canon}
    IN  IF rows # {}
        THEN {Asked(Served(r), subj_canon, qtype_canon, FALSE) : r \in rows}
        ELSE IF Range(store) # {}
        THEN {Asked(Served(r), subj_canon, qtype_canon, TRUE) :
                  r \in Range(store)}
        ELSE {Asked(NoQuestion, subj_canon, qtype_canon, TRUE)}

\* play_exam_wa: the same queries, the Question goes to _format_question_wa
PlayExamWaResults(subject, question_type) ==
    IF GetConnFails THEN {Asked(DbNotFound, None, None, FALSE)}
    ELSE
    LET subj_canon == normalize_subject(subject, get_all_subjects)
        qtype_canon == normalize_qtype(question_type, get_all_question_types)
        rows == {r \in Range(store) :
                    /\ Truthy(subj_canon) => r.subject = subj_canon
                    /\ Truthy(qtype_canon) => r.question_type = qtype_canon}
    IN  IF rows # {}
        THEN {Asked(Served(r), subj_canon, qtype_canon, FALSE) : r \in rows}
        ELSE IF Range(store) # {}
        THEN {Asked(Served(r), subj_canon, qtype_canon, TRUE) :
                  r \in Range(store)}
        ELSE {Asked(NoQuestion, subj_canon, qtype_canon, TRUE)}

\* prototype1's play_exam
Proto1PlayExamResults(subject, question_type) ==
    IF GetConnFails THEN {Asked(DbNotFound, None, None, FALSE)}
    ELSE
    LET subj_canon == normalize_subject(subject, get_all_subjects)
        qtype_canon == normalize_qtype(question_type, get_all_question_types)
        rows == {r \in Range(store) :
                    /\ Truthy(subj_canon) => r.subject = subj_canon
                    /\ Truthy(qtype_canon) => r.question_type = qtype_canon}
    IN  IF rows # {}
        THEN {Asked(Served(r), subj_canon, qtype_canon, FALSE) : r \in rows}
        ELSE IF Range(store) # {}
        THEN {Asked(Served(r), subj_canon, qtype_canon, TRUE) :
                  r \in Range(store)}
        ELSE {Asked(NoQuestion, subj_canon, qtype_canon, TRUE)}

TMathPadded == <<" ", "M", "a", "t", "h", " ">>
TBIO == <<"B", "I", "O">>
Txyz == <<"x", "y", "z">>
TBlank == <<" ", " ">>
TImage == <<"I", "m", "a", "g", "e">>

\* the arguments a caller may send
SubjectInputs ==
    {None, <<>>, TBlank, TMath, TMathPadded, Tmaths, Tbio, TBIO, Txyz, TAll}
QuestionTypeInputs == {None, <<>>, Ttext, TImage, Tmcq, Txyz}

play_exam ==
    /\ response = Idle
    /\ \E subject \in SubjectInputs, question_type \in QuestionTypeInputs :
         \E o \in PlayExamResults(subject, question_type) :
            response' = [op |-> "play_exam", subject |-> subject,
                         question_type |-> question_type,
                         subj_canon |-> o.subj_canon,
                         qtype_canon |-> o.qtype_canon,
                         fallback |-> o.fallback, out |-> o.out]
    /\ UNCHANGED <<db_exists, store, sessions, calls>>

play_exam_pretty ==
    /\ response = Idle
    /\ \E subject \in SubjectInputs, question_type \in QuestionTypeInputs :
         \E o \in PlayExamPrettyResults(subject, question_type) :
            response' = [op |-> "play_exam_pretty", subject |-> subject,
                         question_type |-> question_type,
                         subj_canon |-> o.subj_canon,
                         qtype_canon |-> o.qtype_canon,
                         fallback |-> o.fallback, out |-> o.out]
    /\ UNCHANGED <<db_exists, store, sessions, calls>>

play_exam_wa ==
    /\ response = Idle
    /\ \E subject \in SubjectInputs, question_type \in QuestionTypeInputs :
         \E o \in PlayExamWaResults(subject, question_type) :
            response' = [op |-> "play_exam_wa", subject |-> subject,
                         question_type |-> question_type,
                         subj_canon |-> o.subj_canon,
                         qtype_canon |-> o.qtype_canon,
                         fallback |-> o.fallback, out |-> o.out]
    /\ UNCHANGED <<db_exists, store, sessions, calls>>

proto1_play_exam ==
    /\ response = Idle
    /\ \E subject \in SubjectInputs, question_type \in QuestionTypeInputs :
         \E o \in Proto1PlayExamResults(subject, question_type) :
            response' = [op |-> "proto1_play_exam", subject |-> subject,
                         question_type |-> question_type,
                         subj_canon |-> o.subj_canon,
                         qtype_canon |-> o.qtype_canon,
                         fallback |-> o.fallback, out |-> o.out]
    /\ UNCHANGED <<db_exists, store, sessions, calls>>

(***************************************************************************)
(* Selection: tables whose rows differ in question length and subject      *)
(* (one of them the literal "All"), and tables whose rows differ in        *)
(* subject and question type.                                              *)
(***************************************************************************)
Lengths == {119, 120, 240, 241}

LengthRows ==
    {Row("q1", len, <<"A">>, subj, TIntermediate, None, Ttext) :
        len \in Lengths, subj \in {TMath, TAll}}

LabelRows ==
    {Row("q1", 120, <<"A">>, subj, TIntermediate, None, qt) :
        subj \in {TMath, TBiology}, qt \in {Ttext, Timage}}

InitSelect ==
    /\ db_exists \in BOOLEAN
    /\ store \in Tables(LengthRows, MaxIds) \cup Tables(LabelRows, MaxIds)
    /\ ~db_exists => store = <<>>
    /\ response = Idle
    /\ sessions = <<>>
    /\ calls = <<>>

NextSelect ==
    \/ DatabaseManager_init
    \/ get_random_questions
    \/ get_adaptive_question
    \/ play_exam
    \/ play_exam_pretty
    \/ play_exam_wa
    \/ proto1_play_exam
    \/ Return

SpecSelect == InitSelect /\ [][NextSelect]_vars

\* every operation that only reads the table, on a present or missing file
InitRead ==
    /\ db_exists \in BOOLEAN
    /\ store \in Tables(LabelRows, MaxIds)
    /\ ~db_exists => store = <<>>
    /\ response = Idle
    /\ sessions = <<>>
    /\ calls = <<>>

NextRead ==
    \/ get_random_questions
    \/ get_adaptive_question
    \/ play_exam
    \/ play_exam_pretty
    \/ play_exam_wa
    \/ proto1_play_exam
    \/ check_answer
    \/ check_answer_pretty
    \/ check_answer_wa
    \/ proto1_check_answer
    \/ Return

SpecRead == InitRead /\ [][NextRead]_vars

(***************************************************************************)
(* DatabaseManager: loading questions.                                     *)
(***************************************************************************)
MaxBatch == 2     \* longest list given to insert_questions

TOther == <<"O","t","h","e","r">>

\* dict.get(key, default)
Get(q, key, default) == IF key \in DOMAIN q THEN q[key] ELSE default

\* the tuple insert_questions prepares for one question dict
InsertRow(q) ==
    [id |-> Get(q, "id", ""), question |-> Get(q, "question", 0),
     answer |-> Get(q, "answer", <<>>), subject |-> Get(q, "subject", TOther),
     raw_subject |-> Get(q, "raw_subject", <<>>),
     difficulty |-> Get(q, "difficulty", TIntermediate),
     explanation |-> Get(q, "explanation", <<>>),
     question_type |-> Get(q, "question_type", Ttext),
     image |-> Get(q, "image", <<>>)]

\* INSERT into a table whose id column is no key
InsertOrIgnore_NoKey(table, row) == Append(table, row)

\* INSERT OR REPLACE: a row whose id is taken takes the old row's place
InsertOrIgnore_Replaces(table, row) ==
    IF \E k \in 1..Len(table) : table[k].id = row.id
    THEN [k \in 1..Len(table) |->
             IF table[k].id = row.id THEN row ELSE table[k]]
    ELSE Append(table, row)

\* INSERT OR IGNORE: a row whose id (the PRIMARY KEY) is taken is skipped
InsertOrIgnore(table, row) ==
    IF \E k \in 1..Len(table) : table[k].id = row.id
    THEN table
    ELSE Append(table, row)

\* cursor.executemany: one INSERT per prepared tuple, in order
RECURSIVE ExecuteMany(_, _)
ExecuteMany(table, data) ==
    IF data = <<>> THEN table
    ELSE ExecuteMany(InsertOrIgnore(table, Head(data)), Tail(data))

\* the rows of the table, as a list
TableOf(t) == ListOf(Range(t))

\* the table of a list of rows: id -> the first row with that id
KeyedBy(table) ==
    [i \in {table[k].id : k \in 1..Len(table)} |->
        table[CHOOSE k \in 1..Len(table) :
                  /\ table[k].id = i
                  /\ \A j \in 1..(k - 1) : table[j].id # i]]

\* the question dicts a loader may pass: full ones, and one with no id,
\* answer or subject
InsertDicts ==
    {[id |-> i, question |-> 120, answer |-> a, subject |-> TMath] :
        i \in Ids, a \in {<<"A">>, <<"B">>}}
    \cup {[question |-> 119]}

Batches == UNION {[1..k -> InsertDicts] : k \in 0..MaxBatch}

\* a rowcount that counts every tuple handed to executemany
RowCount_Attempted(table, data) == Len(data)

\* cursor.rowcount after executemany: the rows changed, summed over the
\* statements
RECURSIVE RowCount(_, _)
RowCount(table, data) ==
    IF data = <<>> THEN 0
    ELSE (IF InsertOrIgnore(table, Head(data)) = table THEN 0 ELSE 1)
         + RowCount(InsertOrIgnore(table, Head(data)), Tail(data))

\* insert_questions: returns cursor.rowcount, the number of rows inserted;
\* `table` is the questions table after the commit
insert_questions ==
    /\ response = Idle
    /\ db_exists
    /\ \E questions \in Batches :
         LET before == TableOf(store)
             data == [k \in 1..Len(questions) |-> InsertRow(questions[k])]
             after == ExecuteMany(before, data)
         IN  /\ store' = KeyedBy(after)
             /\ response' = [op |-> "insert_questions",
                             questions |-> questions, table |-> after,
                             out |-> RowCount(before, data)]
    /\ UNCHANGED <<db_exists, sessions, calls>>

\* clear_database: DELETE FROM questions
clear_database ==
    /\ response = Idle
    /\ db_exists
    /\ store' = <<>>
    /\ response' = [op |-> "clear_database"]
    /\ UNCHANGED <<db_exists, sessions, calls>>

InitLoad ==
    /\ db_exists = FALSE
    /\ store = <<>>
    /\ response = Idle
    /\ sessions = <<>>
    /\ calls = <<>>

NextLoad ==
    \/ DatabaseManager_init
    \/ insert_questions
    \/ clear_database
    \/ Return

SpecLoad == InitLoad /\ [][NextLoad]_vars

(***************************************************************************)
(* Canonical values: normalize_subject and normalize_qtype applied to the  *)
(* distinct subjects and question types of a table, some of which contain  *)
(* one another.                                                            *)
(***************************************************************************)
TBio == <<"B", "i", "o">>
TAb == <<"A", "b">>
TExt == <<"E", "x", "t">>

CanonRows ==
    {Row("q1", 120, <<"A">>, subj, TIntermediate, None, qt) :
        subj \in {TMath, TBiology, TBio, TAb}, qt \in {Ttext, Timage, TExt}}

\* the arguments a caller may send
FilterTextInputs ==
    Texts(MaxLen) \cup SubjectInputs \cup QuestionTypeInputs \cup {Tbiology}

normalize_subject_call ==
    /\ response = Idle
    /\ db_exists
    /\ \E user_subject \in FilterTextInputs :
         response' = [op |-> "normalize_subject", input |-> user_subject,
                      available |-> get_all_subjects,
                      out |-> normalize_subject(user_subject, get_all_subjects)]
    /\ UNCHANGED <<db_exists, store, sessions, calls>>

normalize_qtype_call ==
    /\ response = Idle
    /\ db_exists
    /\ \E user_qtype \in FilterTextInputs :
         response' = [op |-> "normalize_qtype", input |-> user_qtype,
                      available |-> get_all_question_types,
                      out |-> normalize_qtype(user_qtype,
                                              get_all_question_types)]
    /\ UNCHANGED <<db_exists, store, sessions, calls>>

InitCanon ==
    /\ db_exists = TRUE
    /\ store \in Tables(CanonRows, MaxIds)
    /\ response = Idle
    /\ sessions = <<>>
    /\ calls = <<>>

NextCanon ==
    \/ normalize_subject_call
    \/ normalize_qtype_call
    \/ Return

SpecCanon == InitCanon /\ [][NextCanon]_vars

(***************************************************************************)
(* Session Registry and Quiz Session State Machine.  `sessions` maps a     *)
(* user to the session the registry holds; `calls` is where each inbound   *)
(* request stands: idle, or suspended in the storage query of              *)
(* submit_answer, which it entered holding the lock of the user's session. *)
(***************************************************************************)
MaxQuestions == 2     \* longest question sequence of a session

Users == {"u1", "u2"}
Requests == {1, 2}

InvalidInput == [kind |-> "InvalidInput"]
NoActiveSession == [kind |-> "NoActiveSession"]

\* the Question Store the sessions read their ground truths from
SessionStore ==
    [i \in {"q1", "q2"} |->
        Row(i, 120, IF i = "q1" THEN <<"A">> ELSE <<"B">>, TMath,
            TIntermediate, None, Ttext)]

\* the arguments a caller may send
QuestionLists == UNION {[1..n -> DOMAIN SessionStore] : n \in 0..MaxQuestions}
SubmitInputs == {<<" ">>, <<"a", " ">>}

\* Registry: start / remove on the in-memory mapping
Put(reg, user_id, session) ==
    [u \in DOMAIN reg \cup {user_id} |->
        IF u = user_id THEN session ELSE reg[u]]

Drop(reg, user_id) == [u \in DOMAIN reg \ {user_id} |-> reg[u]]

\* a new session; `log` records the submissions judged so far
Session(questions) ==
    [questions |-> questions, current_index |-> 0, correct_count |-> 0,
     log |-> <<>>]

\* start keeping the old session's cursor and score
StartSession_Merges(reg, user_id, questions) ==
    IF user_id \in DOMAIN reg
    THEN Put(reg, user_id, [reg[user_id] EXCEPT !.questions = questions])
    ELSE Put(reg, user_id, Session(questions))

\* Registry: start creates the user's session or overwrites the one held
StartSession(reg, user_id, questions) ==
    Put(reg, user_id, Session(questions))

\* a refused request opens an empty session for the user
AfterRefusal_OpensSession(reg, user_id) ==
    Put(reg, user_id, Session(<<>>))

\* a refused request leaves no session of the user behind
AfterRefusal(reg, user_id) == Drop(reg, user_id)

\* Registry: get, as a list of no or one session
Held(reg, user_id) ==
    IF user_id \in DOMAIN reg THEN <<reg[user_id]>> ELSE <<>>

\* nothing serialises two requests of one user
Locked_Never(user_id) == FALSE

\* single writer per session: a request of this user is in its transition
Locked(user_id) ==
    \E c \in Requests : calls[c].pc = "query" /\ calls[c].user_id = user_id

\* a session is accepted on its presence alone
Active_IfPresent(reg, user_id) == user_id \in DOMAIN reg

\* state Active: present and 0 <= current_index < len(questions)
Active(reg, user_id) ==
    /\ user_id \in DOMAIN reg
    /\ reg[user_id].current_index < Len(reg[user_id].questions)

\* the lenient verdict on the trimmed, lowercased texts
Judged(raw_answer_text, ground_truth) ==
    LET a == lower(strip(raw_answer_text))
        g == lower(strip(OrEmpty(ground_truth)))
    IN  a = g \/ In(g, a) \/ In(a, g)

\* the cursor stays on a question answered wrongly
Judge_StaysOnWrong(session, index, is_correct) ==
    [session EXCEPT
        !.current_index = IF is_correct THEN index + 1 ELSE index,
        !.correct_count = IF is_correct THEN @ + 1 ELSE @,
        !.log = Append(@, [index |-> index, is_correct |-> is_correct])]

\* steps 5 and 6: count a correct answer, advance the cursor by one
Judge(session, index, is_correct) ==
    [session EXCEPT
        !.current_index = index + 1,
        !.correct_count = IF is_correct THEN @ + 1 ELSE @,
        !.log = Append(@, [index |-> index, is_correct |-> is_correct])]

\* a completed session stays in the registry
AfterSubmit_KeepsCompleted(reg, user_id, session) ==
    Put(reg, user_id, session)

\* step 7: a session that reached Completed is removed
AfterSubmit(reg, user_id, session) ==
    IF session.current_index = Len(session.questions)
    THEN Drop(reg, user_id)
    ELSE Put(reg, user_id, session)

\* the next question, without its id
NextQuestion(r) ==
    [question |-> r.question, subject |-> r.subject,
     difficulty |-> r.difficulty, question_type |-> r.question_type]

\* steps 7 and 8: the verdict returned
SubmitOut(session, is_correct) ==
    IF session.current_index >= Len(session.questions)
    THEN [kind |-> "final", is_correct |-> is_correct, remaining |-> 0,
          final_score |-> <<session.correct_count, Len(session.questions)>>]
    ELSE [kind |-> "verdict", is_correct |-> is_correct,
          remaining |-> Len(session.questions) - session.current_index,
          next |-> NextQuestion(
                       store[session.questions[session.current_index + 1]])]

Submitted(user_id, raw_answer_text, held, index, total, log, out) ==
    [op |-> "submit_answer", user_id |-> user_id,
     raw_answer_text |-> raw_answer_text, held |-> held, index |-> index,
     total |-> total, log |-> log, out |-> out]

start ==
    /\ response = Idle
    /\ \E user_id \in Users, questions \in QuestionLists :
         /\ ~Locked(user_id)
         /\ sessions' = StartSession(sessions, user_id, questions)
         /\ response' = [op |-> "start", user_id |-> user_id,
                         questions |-> questions,
                         held |-> Held(sessions, user_id)]
    /\ UNCHANGED <<db_exists, store, calls>>

\* the registry holds nothing for the user, or a session already Completed
NoneOrCompleted(reg, user_id) ==
    \/ user_id \notin DOMAIN reg
    \/ reg[user_id].current_index >= Len(reg[user_id].questions)

\* current_question: the question under the cursor of an Active session
current_question ==
    /\ response = Idle
    /\ \E user_id \in Users :
         /\ response' =
                [op |-> "current_question", user_id |-> user_id,
                 held |-> Held(sessions, user_id),
                 out |-> IF NoneOrCompleted(sessions, user_id)
                         THEN NoActiveSession
                         ELSE Served(store[sessions[user_id].questions[
                                  sessions[user_id].current_index + 1]])]
         /\ sessions' = IF NoneOrCompleted(sessions, user_id)
                        THEN AfterRefusal(sessions, user_id)
                        ELSE sessions
    /\ UNCHANGED <<db_exists, store, calls>>

\* step 2, taken with the session's lock: refuse, or read the cursor and
\* suspend in the storage query
Enter(c, user_id, raw_answer_text, waited) ==
    IF ~Active(sessions, user_id)
    THEN /\ sessions' = AfterRefusal(sessions, user_id)
         /\ response' = Submitted(user_id, raw_answer_text,
                                  Held(sessions, user_id), 0, 0, <<>>,
                                  NoActiveSession)
         /\ calls' = [calls EXCEPT ![c] = [pc |-> "idle"]]
    ELSE /\ calls' = [calls EXCEPT ![c] =
                         [pc |-> "query", user_id |-> user_id,
                          raw_answer_text |-> raw_answer_text,
                          waited |-> waited,
                          index |-> sessions[user_id].current_index]]
         /\ UNCHANGED <<sessions, response>>

\* submit_answer, steps 1 and 2, up to the storage query; a request that
\* finds the session locked waits for it
submit_answer ==
    /\ response = Idle
    /\ \E c \in Requests, user_id \in Users, raw_answer_text \in SubmitInputs :
         /\ calls[c].pc = "idle"
         /\ IF ~Truthy(lower(strip(raw_answer_text)))
            THEN /\ response' = Submitted(user_id, raw_answer_text,
                                          Held(sessions, user_id), 0, 0,
                                          <<>>, InvalidInput)
                 /\ UNCHANGED <<sessions, calls>>
            ELSE IF Locked(user_id)
            THEN /\ calls' = [calls EXCEPT ![c] =
                                 [pc |-> "wait", user_id |-> user_id,
                                  raw_answer_text |-> raw_answer_text,
                                  arrived_at |->
                                      sessions[user_id].current_index]]
                 /\ UNCHANGED <<sessions, response>>
            ELSE Enter(c, user_id, raw_answer_text, FALSE)
    /\ UNCHANGED <<db_exists, store>>

\* a waiting request gets the lock once the holder's transition is done
submit_answer_acquire ==
    /\ response = Idle
    /\ \E c \in Requests :
         /\ calls[c].pc = "wait"
         /\ ~Locked(calls[c].user_id)
         /\ Enter(c, calls[c].user_id, calls[c].raw_answer_text, TRUE)
    /\ UNCHANGED <<db_exists, store>>

\* submit_answer, steps 3 to 8, when the storage query returns
submit_answer_resume ==
    /\ response = Idle
    /\ \E c \in Requests :
         /\ calls[c].pc = "query"
         /\ LET user_id == calls[c].user_id
                index == calls[c].index
            IN  IF \/ user_id \notin DOMAIN sessions
                   \/ index >= Len(sessions[user_id].questions)
                THEN /\ response' =
                            Submitted(user_id, calls[c].raw_answer_text,
                                      Held(sessions, user_id), index, 0,
                                      <<>>, NoActiveSession)
                     /\ UNCHANGED sessions
                ELSE LET session == sessions[user_id]
                         row == store[session.questions[index + 1]]
                         is_correct == Judged(calls[c].raw_answer_text,
                                              row.answer)
                         judged == Judge(session, index, is_correct)
                     IN  /\ sessions' = AfterSubmit(sessions, user_id, judged)
                         /\ response' =
                                Submitted(user_id, calls[c].raw_answer_text,
                                          <<session>>, index,
                                          Len(session.questions),
                                          judged.log,
                                          SubmitOut(judged, is_correct))
         /\ calls' = [calls EXCEPT ![c] = [pc |-> "idle"]]
    /\ UNCHANGED <<db_exists, store>>

InitSession ==
    /\ db_exists = TRUE
    /\ store = SessionStore
    /\ response = Idle
    /\ sessions = <<>>
    /\ calls = [c \in Requests |-> [pc |-> "idle"]]

NextSession ==
    \/ start
    \/ current_question
    \/ submit_answer
    \/ submit_answer_acquire
    \/ submit_answer_resume
    \/ Return

SpecSession == InitSession /\ [][NextSession]_vars

(***************************************************************************)
(* Selection by difficulty level 1..5, the finer length mapping used for   *)
(* session starts.                                                         *)
(***************************************************************************)
Levels == 1..5

\* the ranges with their upper bound left out
LevelClause_HalfOpen(level, length) ==
    CASE level = 1 -> length < 80
      [] level = 2 -> 80 <= length /\ length < 140
      [] level = 3 -> 140 <= length /\ length < 220
      [] level = 4 -> 220 <= length /\ length < 300
      [] OTHER -> length > 300

\* level 1: < 80, 2: [80,140], 3: [140,220], 4: [220,300], 5: > 300
LevelClause(level, length) ==
    CASE level = 1 -> length < 80
      [] level = 2 -> 80 <= length /\ length <= 140
      [] level = 3 -> 140 <= length /\ length <= 220
      [] level = 4 -> 220 <= length /\ length <= 300
      [] OTHER -> length > 300

\* one question of the level, uniformly among the candidates, or none
SelectLevelResults(difficulty_level) ==
    LET rows == {r \in Range(store) : LevelClause(difficulty_level, r.question)}
    IN  IF rows = {} THEN {[kind |-> "none"]}
        ELSE {[kind |-> "row", row |-> Question(r)] : r \in rows}

select_level ==
    /\ response = Idle
    /\ \E difficulty_level \in Levels :
         \E out \in SelectLevelResults(difficulty_level) :
            response' = [op |-> "select_level",
                         difficulty_level |-> difficulty_level, out |-> out]
    /\ UNCHANGED <<db_exists, store, sessions, calls>>

LevelLengths == {0, 79, 80, 81, 139, 140, 141, 219, 220, 221, 299, 300, 301}

LevelRows ==
    {Row("q1", len, <<"A">>, TMath, TIntermediate, None, Ttext) :
        len \in LevelLengths}

InitLevel ==
    /\ db_exists = TRUE
    /\ store \in Tables(LevelRows, MaxIds)
    /\ response = Idle
    /\ sessions = <<>>
    /\ calls = <<>>

NextLevel ==
    \/ select_level
    \/ Return

SpecLevel == InitLevel /\ [][NextLevel]_vars

(***************************************************************************)
(* The answer check, stated on the texts themselves.                       *)
(***************************************************************************)
IsBlank(t) == \A i \in 1..Len(t) : t[i] = " "

\* t without its leading and trailing blanks, lowercased
Normalized(t) ==
    LET inked == {i \in 1..Len(t) : t[i] # " "}
        first == CHOOSE i \in inked : \A j \in inked : i <= j
        last == CHOOSE i \in inked : \A j \in inked : j <= i
    IN  IF inked = {} THEN <<>>
        ELSE [k \in 1..(last - first + 1) |-> LowerChar(t[first + k - 1])]

\* x occurs in y as a run of consecutive characters
Occurs(x, y) ==
    \E off \in 0..Len(y) :
        /\ off + Len(x) <= Len(y)
        /\ \A k \in 1..Len(x) : y[off + k] = x[k]

Lenient(answer, ground_truth) ==
    LET a == Normalized(answer)
        g == Normalized(ground_truth)
    IN  a = g \/ Occurs(g, a) \/ Occurs(a, g)

IsCheck(ops) == response.op \in ops

\* C1: check_answer (both servers) gives a verdict for every non-blank answer
\* to a stored question, and the verdict is "correct" exactly when the
\* trimmed, lowercased answer and ground truth are equal or one occurs in
\* the other.
C1_VerdictIsLenientMatch ==
    IsCheck({"check_answer", "proto1_check_answer"}) =>
        /\ response.out.kind = "verdict" =>
             /\ response.question_id \in DOMAIN store
             /\ response.out.correct =
                    Lenient(response.answer, store[response.question_id].answer)
        /\ (/\ db_exists
            /\ response.question_id \in DOMAIN store
            /\ response.answer # None
            /\ ~IsBlank(response.answer)) => response.out.kind = "verdict"

\* ground truth "42", answer "the answer is 42": correct
C1_Witness ==
    /\ response.op = "check_answer"
    /\ response.answer = TTheAnswerIs42
    /\ response.out.kind = "verdict"
    /\ response.out.ground_truth = T42
    /\ response.out.correct

\* C2: an empty or whitespace-only answer is refused with "Answer cannot be
\* empty" whatever the question id and whether or not the table (or the
\* database file) holds it: the refusal comes before any lookup.
C2_BlankAnswerRefusedFirst ==
    (/\ IsCheck({"check_answer", "check_answer_wa", "check_answer_pretty",
                 "proto1_check_answer"})
     /\ response.answer # None
     /\ IsBlank(response.answer)) => response.out = AnswerEmpty

\* a blank answer to an id the table does not hold
C2_Witness ==
    /\ response.op = "check_answer"
    /\ response.answer = <<" ", " ">>
    /\ db_exists
    /\ response.question_id \notin DOMAIN store
    /\ response.out = AnswerEmpty

\* C3: with the database in place, a non-blank answer to an id the table
\* does not hold fails with "Unknown question id"; no verdict is returned.
C3_UnknownIdSurfaced ==
    (/\ IsCheck({"check_answer", "proto1_check_answer"})
     /\ db_exists
     /\ response.answer # None
     /\ ~IsBlank(response.answer)
     /\ response.question_id \notin DOMAIN store)
    => /\ response.out = UnknownId
       /\ response.out.kind # "verdict"

\* the table holds a question, and the id asked about is another one
C3_Witness ==
    /\ response.op = "check_answer"
    /\ db_exists
    /\ store # <<>>
    /\ response.question_id \notin DOMAIN store
    /\ response.answer = <<"A">>
    /\ response.out = UnknownId

(***************************************************************************)
(* Selection, stated on the call and the table.                            *)
(***************************************************************************)
IsCall(ops) == response.op \in ops

PlayOps == {"play_exam", "play_exam_pretty", "play_exam_wa", "proto1_play_exam"}

\* a filter value constrains its field unless it is unset or "All"
Allows(value, field) == value \in {None, TAll} \/ field = value

LabelsAllow(r) ==
    /\ Allows(response.subject, r.subject)
    /\ Allows(response.difficulty, r.difficulty)
    /\ Allows(response.question_type, r.question_type)

NotExcluded(r) ==
    response.exclude_ids = None
    \/ \A k \in 1..Len(response.exclude_ids) : response.exclude_ids[k] # r.id

LengthInBin(bin, len) ==
    CASE bin = Teasy -> len < 120
      [] bin = Tmedium -> len >= 120 /\ len <= 240
      [] bin = Thard -> len > 240
      [] OTHER -> TRUE

Stored == {store[i] : i \in DOMAIN store}

\* C4: get_adaptive_question with a difficulty bin returns only a question
\* whose length is in the bin (easy < 120, medium 120..240, hard > 240),
\* and returns none only if no question the other arguments allow has a
\* length in the bin: lengths 120 and 240 are medium and nothing else.
C4_BinBoundariesExact ==
    (IsCall({"get_adaptive_question"})
     /\ response.difficulty_bin \in {Teasy, Tmedium, Thard}) =>
        /\ response.out.kind = "row" =>
             LengthInBin(response.difficulty_bin, response.out.row.question)
        /\ response.out.kind = "none" =>
             \A r \in Stored :
                 ~(/\ LengthInBin(response.difficulty_bin, r.question)
                   /\ LabelsAllow(r)
                   /\ NotExcluded(r))

\* a question of length exactly 120 is served as medium
C4_Witness ==
    /\ response.op = "get_adaptive_question"
    /\ response.difficulty_bin = Tmedium
    /\ response.out.kind = "row"
    /\ response.out.row.question = 120

\* C5: get_adaptive_question never returns a question whose id is in
\* exclude_ids, and with exclude_ids unset or empty it returns none only if
\* no stored question passes the filters and the bin.
C5_ExcludedNeverReturned ==
    IsCall({"get_adaptive_question"}) =>
        /\ (response.out.kind = "row" /\ response.exclude_ids # None) =>
             \A k \in 1..Len(response.exclude_ids) :
                 response.exclude_ids[k] # response.out.row.id
        /\ (response.out.kind = "none"
            /\ response.exclude_ids \in {None, <<>>}) =>
             \A r \in Stored :
                 ~(/\ LabelsAllow(r)
                   /\ LengthInBin(response.difficulty_bin, r.question))

\* one of two stored questions is excluded and the other one is returned
C5_Witness ==
    /\ response.op = "get_adaptive_question"
    /\ response.exclude_ids # None
    /\ Len(response.exclude_ids) = 1
    /\ response.exclude_ids[1] \in DOMAIN store
    /\ Cardinality(DOMAIN store) = 2
    /\ response.out.kind = "row"
    /\ response.out.row.id # response.exclude_ids[1]

\* C6: when exclude_ids lists every id of the table, get_adaptive_question
\* returns none, whatever the filters and the bin.
C6_AllExcludedGivesNone ==
    (/\ IsCall({"get_adaptive_question"})
     /\ response.exclude_ids # None
     /\ \A i \in DOMAIN store :
            \E k \in 1..Len(response.exclude_ids) : response.exclude_ids[k] = i)
    => response.out.kind = "none"

\* a table of two questions, both excluded, no other constraint
C6_Witness ==
    /\ response.op = "get_adaptive_question"
    /\ Cardinality(DOMAIN store) = 2
    /\ response.exclude_ids # None
    /\ {response.exclude_ids[k] : k \in 1..Len(response.exclude_ids)}
           = DOMAIN store
    /\ response.subject = None
    /\ response.difficulty = None
    /\ response.question_type = None
    /\ response.difficulty_bin = None
    /\ response.out.kind = "none"

\* C7: on a non-empty table, get_adaptive_question with no filter, no
\* exclusion and no bin returns a stored row, and play_exam with no
\* arguments returns the Question of a stored row; neither reports
\* "nothing found".
C7_UnfilteredAlwaysFinds ==
    store # <<>> =>
        /\ (/\ IsCall({"get_adaptive_question"})
            /\ response.exclude_ids \in {None, <<>>}
            /\ response.subject = None
            /\ response.difficulty = None
            /\ response.question_type = None
            /\ response.difficulty_bin = None)
           => /\ response.out.kind = "row"
              /\ response.out.row \in Stored
        /\ (/\ IsCall(PlayOps)
            /\ response.subject = None
            /\ response.question_type = None)
           => /\ response.out.kind = "question"
              /\ \E r \in Stored :
                    /\ response.out.question.id = r.id
                    /\ response.out.question.question = r.question
                    /\ response.out.question.subject = r.subject

\* get_adaptive_question() with its defaults on a table of two questions
C7_Witness ==
    /\ response.op = "get_adaptive_question"
    /\ response.exclude_ids = None
    /\ response.subject = None
    /\ response.difficulty = None
    /\ response.question_type = None
    /\ response.difficulty_bin = None
    /\ Cardinality(DOMAIN store) = 2
    /\ response.out.kind = "row"

\* C8: in get_random_questions and get_adaptive_question a filter that is
\* unset or "All" does not constrain its field: every row returned agrees
\* with the filters that are set to a label, and nothing is returned only
\* if no stored row agrees with those (and, for get_adaptive_question, is
\* not excluded and is in the bin).
C8_UnsetOrAllIsNoConstraint ==
    /\ IsCall({"get_adaptive_question"}) =>
         /\ response.out.kind = "row" => LabelsAllow(response.out.row)
         /\ response.out.kind = "none" =>
              \A r \in Stored :
                  ~(/\ LabelsAllow(r)
                    /\ NotExcluded(r)
                    /\ LengthInBin(response.difficulty_bin, r.question))
    /\ IsCall({"get_random_questions"}) =>
         /\ \A k \in 1..Len(response.out.rows) :
                LabelsAllow(response.out.rows[k])
         /\ (response.out.rows = <<>> /\ response.num_questions # 0) =>
              \A r \in Stored : ~LabelsAllow(r)

\* subject = "All" returns a question whose subject is "Math"
C8_Witness ==
    /\ response.op = "get_adaptive_question"
    /\ response.subject = TAll
    /\ response.question_type = TAll
    /\ response.difficulty = None
    /\ response.out.kind = "row"
    /\ response.out.row.subject = TMath

\* C9: when the canonical filters of play_exam (any variant) match no row
\* of a non-empty table, the unfiltered second query is run and a
\* Question of a stored row is returned; on a non-empty table play_exam
\* never fails.
C9_FallbackServesAnyQuestion ==
    (IsCall(PlayOps) /\ store # <<>>) =>
        /\ response.out.kind = "question"
        /\ response.out.question.id \in DOMAIN store
        /\ (\A r \in Stored :
                \/ (response.subj_canon \notin {None, <<>>}
                    /\ r.subject # response.subj_canon)
                \/ (response.qtype_canon \notin {None, <<>>}
                    /\ r.question_type # response.qtype_canon))
           => response.fallback

\* Math and image are both in the table, but on different rows: the
\* question returned is one the filters did not ask for
C9_Witness ==
    /\ response.op = "play_exam"
    /\ response.subj_canon = TMath
    /\ response.qtype_canon = Timage
    /\ response.fallback
    /\ response.out.kind = "question"
    /\ response.out.question.subject = TBiology

\* C10: on an empty table play_exam (any variant) fails, whatever the
\* filters: with "No question available (database empty)" when the
\* database file exists, and never with a Question.
C10_EmptyStoreIsNotFound ==
    (IsCall(PlayOps) /\ store = <<>>) =>
        /\ response.out.kind = "McpError"
        /\ db_exists => response.out = NoQuestion

\* play_exam(subject="maths") on an empty table
C10_Witness ==
    /\ response.op = "play_exam"
    /\ db_exists
    /\ store = <<>>
    /\ response.subject = Tmaths
    /\ response.out = NoQuestion

(***************************************************************************)
(* Loading, stated on the table.                                           *)
(***************************************************************************)
\* C11: after any sequence of insert_questions calls no two rows of the
\* table share an id, and every id given in the last call is on exactly
\* one row, whether it was given once, twice in the call or in an earlier
\* call.
C11_IdsStayUnique ==
    IsCall({"insert_questions"}) =>
        LET table == response.table
            given == {InsertRow(response.questions[k]).id :
                          k \in 1..Len(response.questions)}
        IN  /\ \A j, k \in 1..Len(table) : table[j].id = table[k].id => j = k
            /\ \A i \in given :
                   Cardinality({k \in 1..Len(table) : table[k].id = i}) = 1
            /\ Cardinality(DOMAIN store) = Len(table)

\* the same dict twice in one call, to a table that already holds its id
C11_Witness ==
    /\ response.op = "insert_questions"
    /\ Len(response.questions) = 2
    /\ response.questions[1] = response.questions[2]
    /\ response.out = 0
    /\ "id" \in DOMAIN response.questions[1]
    /\ response.questions[1].id \in DOMAIN store

(***************************************************************************)
(* Canonical values, stated on the texts.                                  *)
(***************************************************************************)
Lowered(t) == [k \in 1..Len(t) |-> LowerChar(t[k])]

\* the text that is matched: trimmed, lowercased, synonym-mapped
SubjectKey(t) == synonyms(Normalized(t))

QTypeKey(t) ==
    IF Normalized(t) \in {Tmcq, Tmcqs, Tmultiple_choice,
                          Tmultiple_dash_choice, Tchoice}
    THEN Ttext
    ELSE Normalized(t)

\* key equals, contains or is contained in the lowercased canonical value
Related(key, canon) ==
    \/ key = Lowered(canon)
    \/ Occurs(key, Lowered(canon))
    \/ Occurs(Lowered(canon), key)

\* C12: when the subject (or question type) given to play_exam matches no
\* subject (question type) of the table, the canonical filter is unset;
\* on a non-empty table a Question is still returned, and when no given
\* filter matches anything it comes from the first, unconstrained query.
C12_UnmatchedFilterIsUnset ==
    (IsCall(PlayOps) /\ db_exists) =>
        LET subj_unmatched ==
                /\ response.subject # None
                /\ \A r \in Stored :
                       ~Related(SubjectKey(response.subject), r.subject)
            qtype_unmatched ==
                /\ response.question_type # None
                /\ \A r \in Stored :
                       ~Related(QTypeKey(response.question_type),
                                r.question_type)
        IN  /\ subj_unmatched => response.subj_canon = None
            /\ qtype_unmatched => response.qtype_canon = None
            /\ (store # <<>> /\ (subj_unmatched \/ qtype_unmatched)) =>
                   response.out.kind = "question"
            /\ (/\ store # <<>>
                /\ subj_unmatched \/ response.subject = None
                /\ qtype_unmatched \/ response.question_type = None)
               => ~response.fallback

\* play_exam(subject="xyz") on a table of Math and Biology questions
C12_Witness ==
    /\ response.op = "play_exam"
    /\ response.subject = Txyz
    /\ response.question_type = None
    /\ {r.subject : r \in Stored} = {TMath, TBiology}
    /\ response.subj_canon = None
    /\ response.out.kind = "question"
    /\ ~response.fallback

NormalizeKey ==
    IF response.op = "normalize_subject"
    THEN SubjectKey(response.input)
    ELSE QTypeKey(response.input)

Available == {response.available[k] : k \in 1..Len(response.available)}

\* C13 as stated: for every input text, a canonical value is returned if
\* and only if the trimmed, lowercased, synonym-mapped text equals,
\* contains or is contained in the lowercased form of some canonical value.
C13_MatchIffRelated_AnyText ==
    (IsCall({"normalize_subject", "normalize_qtype"})
     /\ response.input # None) =>
        /\ response.out # None <=>
               \E c \in Available : Related(NormalizeKey, c)
        /\ response.out # None =>
               /\ response.out \in Available
               /\ Related(NormalizeKey, response.out)

\* C13, amended: the same for every input text that is not blank; a blank
\* text (empty after trimming) gives unset although the empty text is
\* contained in every canonical value.
C13_MatchIffRelated ==
    (IsCall({"normalize_subject", "normalize_qtype"})
     /\ response.input # None) =>
        IF IsBlank(response.input)
        THEN response.out = None
        ELSE /\ response.out # None <=>
                    \E c \in Available : Related(NormalizeKey, c)
             /\ response.out # None =>
                    /\ response.out \in Available
                    /\ Related(NormalizeKey, response.out)

\* "biology" is given and the canonical value "Bio" is contained in it
C13_Witness ==
    /\ response.op = "normalize_subject"
    /\ response.input = Tbiology
    /\ response.available = <<TBio>>
    /\ response.out = TBio

Position(list, x) == CHOOSE k \in 1..Len(list) : list[k] = x

\* no canonical value listed before `canon` is related to `key`
FirstRelated(key, canon) ==
    /\ canon \in Available
    /\ \A j \in 1..(Position(response.available, canon) - 1) :
           ~Related(key, response.available[j])

\* C14 as stated: "maths" resolves to Math, "bio" to Biology and "mcq" to
\* text whenever the table has that value.
C14_SynonymsResolve_Always ==
    /\ (IsCall({"normalize_subject"}) /\ response.input # None) =>
         /\ (Normalized(response.input) = Tmaths /\ TMath \in Available)
                => response.out = TMath
         /\ (Normalized(response.input) = Tbio /\ TBiology \in Available)
                => response.out = TBiology
    /\ (/\ IsCall({"normalize_qtype"})
        /\ response.input # None
        /\ Normalized(response.input) = Tmcq
        /\ Ttext \in Available)
       => response.out = Ttext

\* C14, amended: "maths" is matched as "math", "bio" as "biology" and "mcq"
\* as "text", and resolves to Math, Biology or text when the table has
\* that value and no canonical value sorted before it is related to the
\* mapped text as well.
C14_SynonymsResolve ==
    /\ (IsCall({"normalize_subject"}) /\ response.input # None) =>
         /\ (Normalized(response.input) = Tmaths /\ FirstRelated(Tmath, TMath))
                => response.out = TMath
         /\ (Normalized(response.input) = Tbio
             /\ FirstRelated(Tbiology, TBiology))
                => response.out = TBiology
    /\ (/\ IsCall({"normalize_qtype"})
        /\ response.input # None
        /\ Normalized(response.input) = Tmcq
        /\ FirstRelated(Ttext, Ttext))
       => response.out = Ttext

\* "mcq" resolves to text in a table of Ext, image and text questions
C14_Witness ==
    /\ response.op = "normalize_qtype"
    /\ response.input = Tmcq
    /\ Len(response.available) >= 2
    /\ response.out = Ttext

(***************************************************************************)
(* What the selection operations give out, and what they leave alone.      *)
(***************************************************************************)
SelectOps == PlayOps \cup {"get_random_questions", "get_adaptive_question"}

CheckOps ==
    {"check_answer", "check_answer_pretty", "check_answer_wa",
     "proto1_check_answer"}

\* the records a selection operation has returned
ReturnedRecords ==
    CASE response.out.kind = "question" -> {response.out.question}
      [] response.out.kind = "rows" -> Range(response.out.rows)
      [] response.out.kind = "row" -> {response.out.row}
      [] OTHER -> {}

\* C15: no record returned by play_exam (and its variants),
\* get_random_questions or get_adaptive_question has an answer or an
\* explanation field.
C15_SelectionHidesAnswers ==
    IsCall(SelectOps) =>
        \A rec \in ReturnedRecords :
            {"answer", "explanation"} \cap DOMAIN rec = {}

\* get_random_questions returns a row together with its stored answer
C15_Witness ==
    /\ response.op = "get_random_questions"
    /\ Len(response.out.rows) = 1
    /\ "answer" \in DOMAIN response.out.rows[1]
    /\ "explanation" \in DOMAIN response.out.rows[1]
    /\ response.out.rows[1].answer = store[response.out.rows[1].id].answer

\* C16: a step of a selection or answer-check operation, whatever it
\* returns, leaves the table and the database file as they were.
C16_ReadsChangeNothing ==
    [][response'.op \in SelectOps \cup CheckOps =>
           /\ store' = store
           /\ db_exists' = db_exists]_vars

\* an answer check has failed on an unknown id over a non-empty table
C16_Witness ==
    /\ response.op = "check_answer"
    /\ response.out = UnknownId
    /\ store # <<>>

(***************************************************************************)
(* Sessions, stated on the registry and on what submit_answer returns.     *)
(***************************************************************************)
\* the last call was a submit_answer that judged an answer; `sessions` is
\* then the registry as that call left it, and response.held the session
\* as the call found it
Accepted ==
    /\ response.op = "submit_answer"
    /\ response.out.kind \in {"verdict", "final"}

Gain(is_correct) == IF is_correct THEN 1 ELSE 0

\* C17: a session started with N questions is closed by its Nth judged
\* answer and by no earlier one: the Nth response is final, the user is
\* then absent from the registry, and the final score is (correct, N) with
\* correct the number of the N submissions that were judged correct.
C17_SessionLifecycle ==
    Accepted =>
        LET u == response.user_id
            N == response.total
            log == response.log
        IN  /\ Len(log) = N <=> response.out.kind = "final"
            /\ Len(log) < N => u \in DOMAIN sessions
            /\ response.out.kind = "final" =>
                 /\ u \notin DOMAIN sessions
                 /\ response.out.final_score =
                        <<Cardinality({k \in 1..N : log[k].is_correct}), N>>

\* the second of two answers, one right and one wrong, closes the session
C17_Witness ==
    /\ Accepted
    /\ response.out.kind = "final"
    /\ response.total = 2
    /\ response.out.final_score = <<1, 2>>
    /\ response.user_id \notin DOMAIN sessions

\* C18: every session in the registry has 0 <= current_index <=
\* len(questions), and an answer is judged only against an index below
\* len(questions): no request is in its transition on, and no verdict was
\* given for, a session whose cursor had reached the end.
C18_IndexInRange ==
    /\ \A u \in DOMAIN sessions :
          /\ 0 <= sessions[u].current_index
          /\ sessions[u].current_index <= Len(sessions[u].questions)
    /\ \A c \in Requests :
          calls[c].pc = "query" =>
              /\ calls[c].user_id \in DOMAIN sessions
              /\ calls[c].index <
                     Len(sessions[calls[c].user_id].questions)
    /\ Accepted => response.index < response.total

\* an answer sent to a session held at current_index = len(questions)
\* (started with no questions) is refused
C18_Witness ==
    /\ response.op = "submit_answer"
    /\ response.out = NoActiveSession
    /\ response.held # <<>>
    /\ ~IsBlank(response.raw_answer_text)

\* C19: a judged answer is judged against the session's current question,
\* moves current_index from k to k + 1 whether right or wrong, adds 1 to
\* correct_count exactly when it is right, and leaves the question
\* sequence as it was.
C19_AdvanceByOne ==
    Accepted =>
        LET u == response.user_id
            before == response.held[1]
            gain == Gain(response.out.is_correct)
        IN  /\ response.index = before.current_index
            /\ response.out.is_correct =
                   Lenient(response.raw_answer_text,
                           store[before.questions[response.index + 1]].answer)
            /\ response.out.kind = "verdict" =>
                 /\ sessions[u].current_index = before.current_index + 1
                 /\ sessions[u].correct_count = before.correct_count + gain
                 /\ sessions[u].questions = before.questions
            /\ response.out.kind = "final" =>
                 /\ before.current_index + 1 = Len(before.questions)
                 /\ response.out.final_score[1] = before.correct_count + gain

\* a wrong first answer has moved the cursor to 1 and scored nothing
C19_Witness ==
    /\ Accepted
    /\ response.out.kind = "verdict"
    /\ ~response.out.is_correct
    /\ response.index = 0
    /\ sessions[response.user_id].current_index = 1
    /\ sessions[response.user_id].correct_count = 0

\* the k-th entry of a log is the answer judged against index k - 1
InOrder(log) == \A k \in 1..Len(log) : log[k].index = k - 1

\* C20: two requests of one user are never both in the transition of
\* submit_answer, so the index a request read is still current when it
\* writes; every index of a session is judged once, in order, and
\* current_index counts the judged answers.
C20_OneWriterPerSession ==
    /\ \A c, d \in Requests :
          (/\ c # d
           /\ calls[c].pc = "query"
           /\ calls[d].pc = "query") => calls[c].user_id # calls[d].user_id
    /\ \A c \in Requests :
          calls[c].pc = "query" =>
              calls[c].index = sessions[calls[c].user_id].current_index
    /\ \A u \in DOMAIN sessions :
          /\ InOrder(sessions[u].log)
          /\ sessions[u].current_index = Len(sessions[u].log)
    /\ Accepted => InOrder(response.log)

\* a request that arrived while index 0 was being judged has waited and
\* then read index 1
C20_Witness ==
    \E c \in Requests :
        /\ calls[c].pc = "query"
        /\ calls[c].waited
        /\ calls[c].index = 1
        /\ sessions[calls[c].user_id].log # <<>>

\* C21: start for a user whose session is under way replaces it: the
\* registry then holds, for that user, exactly the questions given, with
\* current_index 0, correct_count 0 and no answer judged, whatever the old
\* session held.
C21_StartReplaces ==
    IsCall({"start"}) =>
        LET u == response.user_id
        IN  /\ u \in DOMAIN sessions
            /\ sessions[u].questions = response.questions
            /\ sessions[u].current_index = 0
            /\ sessions[u].correct_count = 0
            /\ sessions[u].log = <<>>

\* a session with one answer judged correct is replaced by other questions
C21_Witness ==
    /\ response.op = "start"
    /\ response.held # <<>>
    /\ response.held[1].current_index = 1
    /\ response.held[1].correct_count = 1
    /\ response.held[1].questions # response.questions
    /\ response.questions # <<>>

\* C22: submit_answer with a non-blank answer, and current_question, for a
\* user the registry holds nothing for, give NoActiveSession and leave the
\* registry as it was.
C22_NoSessionIsRefused ==
    [][(/\ response' # response
        /\ response'.op \in {"submit_answer", "current_question"}
        /\ response'.user_id \notin DOMAIN sessions
        /\ response'.op = "submit_answer" =>
               ~IsBlank(response'.raw_answer_text))
       => /\ response'.out = NoActiveSession
          /\ sessions' = sessions]_vars

\* an answer is refused for a user whose session was completed and removed
\* while another user's session is held
C22_Witness ==
    /\ response.op = "submit_answer"
    /\ ~IsBlank(response.raw_answer_text)
    /\ response.held = <<>>
    /\ response.out = NoActiveSession
    /\ response.user_id \notin DOMAIN sessions
    /\ sessions # <<>>

(***************************************************************************)
(* Difficulty levels, stated on the lengths.                               *)
(***************************************************************************)
InLevel(level, length) ==
    \/ level = 1 /\ length < 80
    \/ level = 2 /\ length \in 80..140
    \/ level = 3 /\ length \in 140..220
    \/ level = 4 /\ length \in 220..300
    \/ level = 5 /\ length > 300

\* C23: a selection for level L returns only a question whose length is in
\* L's range (1: < 80, 2: 80..140, 3: 140..220, 4: 220..300, 5: > 300, both
\* ends of a range included), returns none only if no stored question is
\* in the range, and every stored length is in the range of some level.
C23_LevelRangesExact ==
    IsCall({"select_level"}) =>
        /\ response.out.kind = "row" =>
               InLevel(response.difficulty_level, response.out.row.question)
        /\ response.out.kind = "none" =>
               \A r \in Stored :
                   ~InLevel(response.difficulty_level, r.question)
        /\ \A r \in Stored : \E level \in Levels : InLevel(level, r.question)

\* a question of length 300 is served at level 4 from a table that also
\* holds one of length 301
C23_Witness ==
    /\ response.op = "select_level"
    /\ response.difficulty_level = 4
    /\ response.out.kind = "row"
    /\ response.out.row.question = 300
    /\ \E r \in Stored : r.question = 301

(***************************************************************************)
(* Exact matching at the table.                                            *)
(***************************************************************************)
\* C24: when play_exam's subject resolves to the canonical S and its
\* question type to the canonical T, and some stored question has subject
\* S and type T, the Question returned has subject S and type T exactly and
\* comes from the first query, not from the unfiltered one.
C24_CanonicalFiltersAreExact ==
    (/\ IsCall(PlayOps)
     /\ db_exists
     /\ response.subj_canon # None
     /\ response.qtype_canon # None
     /\ \E r \in Stored : /\ r.subject = response.subj_canon
                          /\ r.question_type = response.qtype_canon)
    => /\ response.out.kind = "question"
       /\ response.out.question.subject = response.subj_canon
       /\ response.out.question.question_type = response.qtype_canon
       /\ ~response.fallback

\* " Math " and "Image" pick the Math image question, not the Math text one
C24_Witness ==
    /\ response.op = "play_exam"
    /\ response.subject = TMathPadded
    /\ response.question_type = TImage
    /\ response.subj_canon = TMath
    /\ response.qtype_canon = Timage
    /\ \E r \in Stored : r.subject = TMath /\ r.question_type = Ttext
    /\ response.out.kind = "question"
    /\ response.out.question.question_type = Timage

(***************************************************************************)
(* How many questions get_random_questions returns.                        *)
(***************************************************************************)
\* the stored questions the labels of the last call allow
Matching == {r \in Stored : LabelsAllow(r)}

Least(a, b) == IF a < b THEN a ELSE b

\* the rows returned are stored rows the labels allow, no id twice
DistinctMatching(rows) ==
    /\ \A k \in 1..Len(rows) : rows[k] \in Matching
    /\ \A j, k \in 1..Len(rows) : rows[j].id = rows[k].id => j = k

\* C25 as stated: for every num_questions the list has exactly
\* min(num_questions, number of matching questions) entries, each a
\* matching question, no id twice.
C25_CountIsMin_AnyNumber ==
    IsCall({"get_random_questions"}) =>
        /\ Len(response.out.rows) =
               Least(response.num_questions, Cardinality(Matching))
        /\ DistinctMatching(response.out.rows)

\* C25, amended: for num_questions >= 0 the list has exactly
\* min(num_questions, number of matching questions) entries; for a negative
\* num_questions (LIMIT without a limit) it has every matching question;
\* in both cases each entry is a matching question, no id twice, and the
\* list is empty when nothing matches.
C25_CountIsMin ==
    IsCall({"get_random_questions"}) =>
        /\ response.num_questions >= 0 =>
               Len(response.out.rows) =
                   Least(response.num_questions, Cardinality(Matching))
        /\ response.num_questions < 0 =>
               Len(response.out.rows) = Cardinality(Matching)
        /\ DistinctMatching(response.out.rows)

\* one of two Math questions is asked for and the second one is returned
C25_Witness ==
    /\ response.op = "get_random_questions"
    /\ response.num_questions = 1
    /\ response.subject = TMath
    /\ Cardinality(Matching) = 2
    /\ Len(response.out.rows) = 1
    /\ response.out.rows[1].id = "q2"

(***************************************************************************)
(* Loading again, stated on the steps of insert_questions.                 *)
(***************************************************************************)
Inserts == response' # response /\ response'.op = "insert_questions"

\* the ids of the dicts given to the call, '' for a dict without one
GivenIds ==
    {InsertRow(response'.questions[k]).id : k \in 1..Len(response'.questions)}

\* C26: insert_questions leaves every question already stored exactly as
\* it was, whatever a dict with the same id says, and stores every id
\* given; so a call whose ids are all stored (the same batch a second
\* time) leaves the table as it was.
C26_FirstVersionWins ==
    [][Inserts =>
         /\ \A i \in DOMAIN store :
                i \in DOMAIN store' /\ store'[i] = store[i]
         /\ GivenIds \subseteq DOMAIN store'
         /\ GivenIds \subseteq DOMAIN store => store' = store
      ]_vars

\* q1 is stored with answer "A"; a dict for q1 with answer "B" adds nothing
C26_Witness ==
    /\ response.op = "insert_questions"
    /\ Len(response.questions) = 1
    /\ "id" \in DOMAIN response.questions[1]
    /\ response.questions[1].id = "q1"
    /\ response.questions[1].answer = <<"B">>
    /\ "q1" \in DOMAIN store
    /\ store["q1"].answer = <<"A">>

\* C30: the number insert_questions returns is the number of questions the
\* call added: the table has exactly that many rows more than before, and
\* a dict whose id was stored or came earlier in the list is not counted.
C30_ReturnsRowsAdded ==
    [][Inserts =>
         /\ Cardinality(DOMAIN store') =
                Cardinality(DOMAIN store) + response'.out
         /\ response'.out = Cardinality(GivenIds \ DOMAIN store)
      ]_vars

\* two dicts with one id are given to a table holding another id: 1 is
\* returned
C30_Witness ==
    /\ response.op = "insert_questions"
    /\ Len(response.questions) = 2
    /\ "id" \in DOMAIN response.questions[1]
    /\ "id" \in DOMAIN response.questions[2]
    /\ response.questions[1].id = response.questions[2].id
    /\ response.out = 1
    /\ Cardinality(DOMAIN store) = 2

(***************************************************************************)
(* The answer check across its variants, and the order of the canonical    *)
(* values.                                                                 *)
(***************************************************************************)
\* C27: whichever of check_answer, check_answer_pretty, check_answer_wa
\* and prototype1's check_answer was called, each of the four gives, for
\* the same table, question id and answer, the outcome that was returned:
\* the same error, or the same verdict with the same ground truth.
C27_VariantsAgree ==
    IsCheck(CheckOps) =>
        LET question_id == response.question_id
            answer == response.answer
        IN  /\ CheckAnswerResult(question_id, answer) = response.out
            /\ CheckAnswerPrettyResult(question_id, answer) = response.out
            /\ CheckAnswerWaResult(question_id, answer) = response.out
            /\ Proto1CheckAnswerResult(question_id, answer) = response.out

\* check_answer_wa accepts an answer that only occurs in the ground truth
C27_Witness ==
    /\ response.op = "check_answer_wa"
    /\ response.out.kind = "verdict"
    /\ response.out.correct
    /\ Normalized(response.answer) # Normalized(response.out.ground_truth)
    /\ Occurs(Normalized(response.answer),
              Normalized(response.out.ground_truth))

\* C28: normalize_subject and normalize_qtype are given the distinct stored
\* values, each once; they return unset or one of them, and the one
\* returned is the first in the list's order that is related to the mapped
\* input, also when a later one equals it.
C28_FirstMatchInListOrder ==
    (IsCall({"normalize_subject", "normalize_qtype"})
     /\ response.input # None) =>
        /\ \A j, k \in 1..Len(response.available) :
               response.available[j] = response.available[k] => j = k
        /\ Available = IF response.op = "normalize_subject"
                       THEN {r.subject : r \in Stored}
                       ELSE {r.question_type : r \in Stored}
        /\ response.out # None =>
               /\ response.out \in Available
               /\ Related(NormalizeKey, response.out)
               /\ FirstRelated(NormalizeKey, response.out)

\* "biology" resolves to Bio, listed before Biology
C28_Witness ==
    /\ response.op = "normalize_subject"
    /\ response.input = Tbiology
    /\ response.available = <<TBio, TBiology>>
    /\ response.out = TBio

\* C29: the verdict is the same with the normalized answer and the
\* normalized ground truth exchanged, and a stored ground truth that is
\* empty or blank makes every answer that is not blank correct.
C29_VerdictSymmetric ==
    (IsCheck(CheckOps) /\ response.out.kind = "verdict") =>
        LET a == Normalized(response.answer)
            g == Normalized(response.out.ground_truth)
        IN  /\ response.out.correct = IsCorrect(g, a)
            /\ IsCorrect(a, g) = IsCorrect(g, a)
            /\ IsBlank(response.out.ground_truth) => response.out.correct

\* the stored answer is one blank and the answer "B" is judged correct
C29_Witness ==
    /\ response.op = "check_answer"
    /\ response.out.kind = "verdict"
    /\ response.out.ground_truth = <<" ">>
    /\ response.answer = <<"B">>
    /\ response.out.correct

====
